---------------------------- MODULE Spec2Model ----------------------------
(***************************************************************************)
(* A model of dota2py/parser.py: the Reader byte cursor and the DemoParser *)
(* frame / packet / game-event decoding loop.                              *)
(*                                                                         *)
(* Python integers are unbounded; the values a varint or a 32-bit field    *)
(* can take exceed the range of TLC's integers, so such a value is kept as *)
(* two limbs  [hi, lo]  standing for  hi * 2^28 + lo  with 0 <= lo < 2^28. *)
(***************************************************************************)
EXTENDS Integers, Sequences, FiniteSets, TLC

VARIABLES
    reader,        \* the (outer) Reader: stream, stream position, size, remaining
    last,          \* SpecCursor/SpecVarint: the last Reader call and its outcome
    nops,          \* SpecCursor/SpecVarint: number of Reader calls made so far
    pc,            \* DemoParser.parse: position in the control flow
    exc,           \* the exception that ended the run (None while running)
    frames,        \* DemoParser.frames (0 stands for None: both are falsy)
    hooks,         \* DemoParser.hooks: the kinds with an external hook
    hookfails,     \* the kinds whose external hook raises when it is called
    frame,         \* parse's local frame counter
    message,       \* the outer message being dispatched
    compressed,    \* parse's local `compressed` of the current frame
    cmdkey,        \* the value used as key into MESSAGE_TYPES for the current frame
    rawcmd,        \* the kind value as read from the stream for the current frame
    rawpayload,    \* the payload bytes of the current frame as read from the stream
    inner,         \* parse_demo_packet's Reader over the packet data
    eventlist,     \* DemoParser.eventlist
    event_lookup,  \* DemoParser.event_lookup: eventid -> descriptor
    calls,         \* history: every hook invocation, in order
    events,        \* history: every event_dict built by parse_game_event
    usermsgs,      \* history: every user message decoded by parse_user_message
    skipped,       \* history: eventids of the game events parse_game_event ignored
    framestart     \* history: the hook calls made and the registry when the frame began

vars == <<reader, last, nops, pc, exc, frames, hooks, hookfails, frame, message,
          compressed, cmdkey, rawcmd, rawpayload, inner, eventlist, event_lookup, calls,
          events, usermsgs, skipped, framestart>>

parserVars == <<pc, exc, frames, hooks, hookfails, frame, message, compressed, cmdkey,
                rawcmd, rawpayload, inner, eventlist, event_lookup, calls, events, usermsgs,
                skipped, framestart>>

None == "None"

-----------------------------------------------------------------------------
(* Python integers as limbs *)

Base == 2^28

PyInt(hi, lo) == [hi |-> hi, lo |-> lo]

PyZero == PyInt(0, 0)

\* an integer 0 <= n < 2^31 as limbs
ToPy(n) == PyInt(n \div Base, n % Base)

\* limbs back to an integer (only for values below 2^31)
ToInt(v) == v.hi * Base + v.lo

RECURSIVE BitOr(_, _)
BitOr(a, b) ==
    IF a = 0 THEN b
    ELSE IF b = 0 THEN a
    ELSE (IF a % 2 = 1 \/ b % 2 = 1 THEN 1 ELSE 0) + 2 * BitOr(a \div 2, b \div 2)

RECURSIVE BitAnd(_, _)
BitAnd(a, b) ==
    IF a = 0 \/ b = 0 THEN 0
    ELSE (IF a % 2 = 1 /\ b % 2 = 1 THEN 1 ELSE 0) + 2 * BitAnd(a \div 2, b \div 2)

\* a | b
PyOr(a, b) == PyInt(BitOr(a.hi, b.hi), BitOr(a.lo, b.lo))

\* x << s for a 7-bit x and 0 <= s <= 28
PyShl(x, s) ==
    IF s >= 28 THEN PyInt(x * 2^(s - 28), 0)
    ELSE PyInt((x * 2^s) \div Base, (x * 2^s) % Base)

\* a + b
PyAdd(a, b) == PyInt(a.hi + b.hi + ((a.lo + b.lo) \div Base), (a.lo + b.lo) % Base)

-----------------------------------------------------------------------------
(* Reader *)

NotEnoughData == "ValueError: Not enough data"
CorruptVarInt == "ValueError: Corrupt VarInt32"
OrdTypeError == "TypeError: ord() expected a character"
StructError == "struct.error: unpack requires a string argument of length 4"

Min(a, b) == IF a < b THEN a ELSE b

\* F applied to the value of v (a local name bound to a computed value)
Bind(v, F(_)) == CHOOSE y \in {F(x) : x \in {v}} : TRUE

\* Reader.__init__
NewReader(bytes) ==
    [stream |-> bytes, pos |-> 0, size |-> Len(bytes), remaining |-> Len(bytes)]

\* a faulty variant of more, kept for comparison: the last three bytes are left
more_early(r) == r.remaining > 3

\* a faulty variant of more, kept for comparison: there is always more
more_always(r) == TRUE

\* Reader.more
more(r) == r.remaining > 0

\* Reader.nibble: the count is taken first, the check comes after
nibble(r, length) ==
    LET r2 == [r EXCEPT !.remaining = r.remaining - length]
    IN  [r |-> r2, exc |-> IF r2.remaining < 0 THEN NotEnoughData ELSE None]

\* cStringIO's read(n): up to n bytes from the position, all of them when n < 0
stream_read(r, n) ==
    LET stop == IF n < 0 THEN r.size ELSE Min(r.pos + n, r.size)
    IN  [r |-> [r EXCEPT !.pos = stop], data |-> SubSeq(r.stream, r.pos + 1, stop)]

\* Reader.read_byte
read_byte(r) ==
    Bind(nibble(r, 1), LAMBDA nb :
        IF nb.exc # None THEN [r |-> nb.r, exc |-> nb.exc, val |-> 0]
        ELSE Bind(stream_read(nb.r, 1), LAMBDA sr :
                 IF Len(sr.data) # 1 THEN [r |-> sr.r, exc |-> OrdTypeError, val |-> 0]
                 ELSE [r |-> sr.r, exc |-> None, val |-> sr.data[1]]))

\* Reader.read with a length
read(r, length) ==
    Bind(nibble(r, length), LAMBDA nb :
        IF nb.exc # None THEN [r |-> nb.r, exc |-> nb.exc, data |-> <<>>]
        ELSE Bind(stream_read(nb.r, length), LAMBDA sr :
                 [r |-> sr.r, exc |-> None, data |-> sr.data]))

\* Reader.read with length=None: the length is `remaining`
read_rest(r) == read(r, r.remaining)

\* struct.unpack(">L", b): big-endian unsigned
unpack_L(b) ==
    PyInt(b[1] \div 16, (b[1] % 16) * 2^24 + b[2] * 2^16 + b[3] * 2^8 + b[4])

\* struct.unpack(">l", b): big-endian two's complement; the magnitude and the sign
unpack_l(b) ==
    LET u == unpack_L(b) IN
    IF b[1] < 128 THEN [neg |-> FALSE, mag |-> u]
    ELSE [neg |-> TRUE,
          mag |-> PyInt(16 - u.hi - (IF u.lo > 0 THEN 1 ELSE 0), (Base - u.lo) % Base)]

\* Reader.read_uint32
read_uint32(r) ==
    Bind(nibble(r, 4), LAMBDA nb :
        IF nb.exc # None THEN [r |-> nb.r, exc |-> nb.exc, val |-> PyZero]
        ELSE Bind(stream_read(nb.r, 4), LAMBDA sr :
                 IF Len(sr.data) # 4 THEN [r |-> sr.r, exc |-> StructError, val |-> PyZero]
                 ELSE [r |-> sr.r, exc |-> None, val |-> unpack_L(sr.data)]))

\* Reader.read_int32
read_int32(r) ==
    Bind(nibble(r, 4), LAMBDA nb :
        IF nb.exc # None
        THEN [r |-> nb.r, exc |-> nb.exc, val |-> [neg |-> FALSE, mag |-> PyZero]]
        ELSE Bind(stream_read(nb.r, 4), LAMBDA sr :
                 IF Len(sr.data) # 4
                 THEN [r |-> sr.r, exc |-> StructError,
                       val |-> [neg |-> FALSE, mag |-> PyZero]]
                 ELSE [r |-> sr.r, exc |-> None, val |-> unpack_l(sr.data)]))

\* a faulty variant of vint_group, kept for comparison: every group is shifted by 8 bits, not 7
vint_group_shift8(result, b, count) ==
    PyOr(result, PyShl(b % 128, 8 * count))

\* one group of read_vint32: result | (b & 0x7F) << (7 * count)
vint_group(result, b, count) ==
    PyOr(result, PyShl(b % 128, 7 * count))

\* a faulty variant of vint_loop, kept for comparison: the guard is count > 5
RECURSIVE vint_loop_six(_, _, _)
vint_loop_six(r, result, count) ==
    IF count > 5 THEN [r |-> r, exc |-> CorruptVarInt, val |-> result]
    ELSE Bind(read_byte(r), LAMBDA rb :
             IF rb.exc # None THEN [r |-> rb.r, exc |-> rb.exc, val |-> result]
             ELSE Bind(PyOr(result, PyShl(rb.val % 128, 7 * count)), LAMBDA res :
                      IF (rb.val \div 128) % 2 = 0
                      THEN [r |-> rb.r, exc |-> None, val |-> res]
                      ELSE vint_loop_six(rb.r, res, count + 1)))

\* the loop of Reader.read_vint32, from `count` groups read
RECURSIVE vint_loop(_, _, _)
vint_loop(r, result, count) ==
    IF count > 4 THEN [r |-> r, exc |-> CorruptVarInt, val |-> result]
    ELSE Bind(read_byte(r), LAMBDA rb :
             IF rb.exc # None THEN [r |-> rb.r, exc |-> rb.exc, val |-> result]
             ELSE Bind(vint_group(result, rb.val, count), LAMBDA res :
                      IF (rb.val \div 128) % 2 = 0
                      THEN [r |-> rb.r, exc |-> None, val |-> res]
                      ELSE vint_loop(rb.r, res, count + 1)))

\* Reader.read_vint32
read_vint32(r) == vint_loop(r, PyZero, 0)


-----------------------------------------------------------------------------
(* The collaborators outside parser.py: the kind tables of dota2py.messages, *)
(* the protobuf classes of dota2py.proto and snappy.  Each is given here by  *)
(* a small stand-in with the interface the parser uses.                      *)

\* demo_pb2.DEM_IsCompressed: one bit above every kind
DEM_IsCompressed == 64

\* messages.MESSAGE_TYPES: outer kind -> message class
MESSAGE_TYPES ==
    (1 :> "CDemoFileHeader") @@ (7 :> "CDemoPacket") @@ (13 :> "CDemoFullPacket")

\* messages.DEMO_PACKET_MESSAGE_TYPES: inner kind -> message class
DEMO_PACKET_MESSAGE_TYPES ==
    (4 :> "CNETMsg_Tick") @@ (23 :> "CSVCMsg_UserMessage")
        @@ (25 :> "CSVCMsg_GameEvent") @@ (30 :> "CSVCMsg_GameEventList")

\* messages.COMBINED_USER_MESSAGE_TYPES: msg_type -> message class
COMBINED_USER_MESSAGE_TYPES ==
    (3 :> "CUserMsg_SayText") @@ (5 :> "CUserMsg_TextMsg")

SnappyError == "snappy.UncompressError"

\* snappy.compress: the length, then the bytes
compress(b) == <<Len(b)>> \o b

\* snappy.decompress: fails unless the block starts with the length of the rest
decompress(b) ==
    IF b # <<>> /\ b[1] = Len(b) - 1
    THEN [exc |-> None, data |-> Tail(b)]
    ELSE [exc |-> SnappyError, data |-> <<>>]

KeyNames == <<"k1", "k2">>

\* the field list of a descriptor from its wire code: t1 + 8 * t2, 0 for no field
DescriptorKeys(code) ==
    IF code = 0 THEN <<>>
    ELSE IF code < 8 THEN <<[name |-> KeyNames[1], type |-> code]>>
    ELSE <<[name |-> KeyNames[1], type |-> code % 8],
           [name |-> KeyNames[2], type |-> (code \div 8) % 8]>>

\* CSVCMsg_GameEventList.descriptors from the wire: 3 bytes (eventid, name, fields) each
RECURSIVE ParseDescriptors(_)
ParseDescriptors(b) ==
    IF Len(b) < 3 THEN <<>>
    ELSE <<[eventid |-> b[1], name |-> b[2], keys |-> DescriptorKeys(b[3])]>>
             \o ParseDescriptors(SubSeq(b, 4, Len(b)))

\* CSVCMsg_GameEvent.keys from the wire: one byte (type + 8 * value) each
ParseKeys(b) == [i \in 1..Len(b) |-> [type |-> b[i] % 8, val |-> b[i] \div 8]]

\* message_type().ParseFromString(b)
ParseFromString(message_type, b) ==
    CASE message_type = "CDemoPacket" ->
            [type |-> message_type, data |-> b]
      [] message_type = "CDemoFullPacket" ->
            [type |-> message_type,
             string_table |-> IF b = <<>> THEN 0 ELSE b[1],
             packet |-> [data |-> IF b = <<>> THEN <<>> ELSE Tail(b)]]
      [] message_type = "CSVCMsg_UserMessage" ->
            [type |-> message_type,
             msg_type |-> IF b = <<>> THEN 0 ELSE b[1],
             msg_data |-> IF b = <<>> THEN <<>> ELSE Tail(b)]
      [] message_type = "CSVCMsg_GameEventList" ->
            [type |-> message_type, descriptors |-> ParseDescriptors(b)]
      [] message_type = "CSVCMsg_GameEvent" ->
            [type |-> message_type,
             eventid |-> IF b = <<>> THEN 0 ELSE b[1],
             keys |-> IF b = <<>> THEN <<>> ELSE ParseKeys(Tail(b))]
      [] OTHER -> [type |-> message_type, raw |-> b]

-----------------------------------------------------------------------------
(* Reader.read_message *)

NoMessage == [type |-> None]

\* read_message, lines 83-87: the bytes of the message
read_message_bytes(r, read_size) ==
    IF read_size
    THEN Bind(read_vint32(r), LAMBDA size :
             IF size.exc # None THEN [r |-> size.r, exc |-> size.exc, data |-> <<>>]
             ELSE read(size.r, ToInt(size.val)))
    ELSE read_rest(r)

read_message(r, message_type, is_compressed, read_size) ==
    Bind(read_message_bytes(r, read_size), LAMBDA b :
        Bind(IF b.exc # None THEN [exc |-> b.exc, data |-> <<>>]
             ELSE IF is_compressed THEN decompress(b.data)
             ELSE [exc |-> None, data |-> b.data],
             LAMBDA d :
                 [r |-> b.r, exc |-> d.exc, raw |-> b.data,
                  msg |-> IF d.exc # None THEN NoMessage
                          ELSE ParseFromString(message_type, d.data)]))

-----------------------------------------------------------------------------
(* DemoParser: the handlers *)

KEY_DATA_TYPES ==
    (1 :> "val_string") @@ (2 :> "val_float") @@ (3 :> "val_long") @@ (4 :> "val_short")
        @@ (5 :> "val_byte") @@ (6 :> "val_bool") @@ (7 :> "val_uint64")

InvalidReplay == "ValueError: Invalid replay - incorrect filestamp"
UnknownMessageType == "KeyError: Unknown message type found"
UnknownDemoPacketCmd == "IndexError: Unknown demo packet cmd"
UnknownUserMessageCmd == "IndexError: Unknown user message cmd"
KeysIndexError == "IndexError: list index out of range"
KeyTypeError == "KeyError: KEY_DATA_TYPES"

\* "PBUFDEM\x00"
Filestamp == <<80, 66, 85, 70, 68, 69, 77, 0>>

\* the classes with an entry in DemoParser.internal_hooks
internal_hooks ==
    {"CDemoPacket", "CDemoFullPacket", "CSVCMsg_UserMessage", "CSVCMsg_GameEvent",
     "CSVCMsg_GameEventList"}

\* getattr(key, name): the value of the field the key carries, the default of any other
getattr(key, name) ==
    IF key.type \in DOMAIN KEY_DATA_TYPES /\ name = KEY_DATA_TYPES[key.type]
    THEN key.val ELSE 0

\* cmd in table, for a kind read as a varint
InTable(v, table) == v.hi = 0 /\ v.lo \in DOMAIN table

\* a faulty variant of parse_user_message, kept for comparison: an unknown
\* msg_type is passed over
parse_user_message_lenient(m) ==
    IF m.msg_type \notin DOMAIN COMBINED_USER_MESSAGE_TYPES
    THEN [exc |-> None, out |-> <<>>]
    ELSE Bind(read_message(NewReader(m.msg_data),
                           COMBINED_USER_MESSAGE_TYPES[m.msg_type], FALSE, FALSE),
              LAMBDA rm :
                  [exc |-> rm.exc, out |-> IF rm.exc = None THEN <<rm.msg>> ELSE <<>>])

\* DemoParser.parse_user_message
parse_user_message(m) ==
    IF m.msg_type \notin DOMAIN COMBINED_USER_MESSAGE_TYPES
    THEN [exc |-> UnknownUserMessageCmd, out |-> <<>>]
    ELSE Bind(read_message(NewReader(m.msg_data),
                           COMBINED_USER_MESSAGE_TYPES[m.msg_type], FALSE, FALSE),
              LAMBDA rm :
                  [exc |-> rm.exc, out |-> IF rm.exc = None THEN <<rm.msg>> ELSE <<>>])

\* a faulty variant of install_descriptors, kept for comparison: the table is keyed by the descriptor's name
RECURSIVE install_descriptors_by_name(_, _)
install_descriptors_by_name(lookup, ds) ==
    IF ds = <<>> THEN lookup
    ELSE install_descriptors_by_name((Head(ds).name :> Head(ds)) @@ lookup, Tail(ds))

\* parse_game_event_list, lines 189-190: event_lookup[descriptor.eventid] = descriptor
RECURSIVE install_descriptors(_, _)
install_descriptors(lookup, ds) ==
    IF ds = <<>> THEN lookup
    ELSE install_descriptors((Head(ds).eventid :> Head(ds)) @@ lookup, Tail(ds))

\* DemoParser.parse_game_event_list: event_lookup after the loop
parse_game_event_list(lookup, m) == install_descriptors(lookup, m.descriptors)

\* the loop of DemoParser.parse_game_event over event.keys, from index i
RECURSIVE event_keys_loop(_, _, _, _)
event_keys_loop(event, event_type, i, event_dict) ==
    IF i > Len(event.keys) THEN [exc |-> None, event_dict |-> event_dict]
    ELSE IF i > Len(event_type.keys) THEN [exc |-> KeysIndexError, event_dict |-> event_dict]
    ELSE IF event.keys[i].type \notin DOMAIN KEY_DATA_TYPES
         THEN [exc |-> KeyTypeError, event_dict |-> event_dict]
    ELSE event_keys_loop(event, event_type, i + 1,
             (event_type.keys[i].name
                 :> getattr(event.keys[i], KEY_DATA_TYPES[event.keys[i].type]))
                 @@ event_dict)

\* DemoParser.parse_game_event: event.eventid in self.event_lookup
event_known(lookup, event) == event.eventid \in DOMAIN lookup

\* DemoParser.parse_game_event
parse_game_event(lookup, event) ==
    IF event_known(lookup, event)
    THEN Bind(lookup[event.eventid], LAMBDA event_type :
             Bind(event_keys_loop(event, event_type, 1, ("name" :> event_type.name)),
                  LAMBDA res :
                      [exc |-> res.exc, known |-> TRUE,
                       out |-> IF res.exc = None THEN <<res.event_dict>> ELSE <<>>]))
    ELSE [exc |-> None, known |-> FALSE, out |-> <<>>]

-----------------------------------------------------------------------------
(* The state of a DemoParser that is not running: what the cursor            *)
(* specifications leave alone.                                               *)

NoReader == NewReader(<<>>)

\* before the first frame: no hook called, nothing registered
NoFrame == [started |-> FALSE, ncalls |-> 0, eventlist |-> [type |-> None], event_lookup |-> <<>>]

ParserIdle ==
    /\ pc = "idle"
    /\ exc = None
    /\ frames = 0
    /\ hooks = {}
    /\ hookfails = {}
    /\ framestart = NoFrame
    /\ frame = 0
    /\ message = NoMessage
    /\ compressed = FALSE
    /\ cmdkey = 0
    /\ rawcmd = 0
    /\ rawpayload = <<>>
    /\ inner = NoReader
    /\ eventlist = NoMessage
    /\ event_lookup = <<>>
    /\ calls = <<>>
    /\ events = <<>>
    /\ usermsgs = <<>>
    /\ skipped = <<>>

-----------------------------------------------------------------------------
(* SpecCursor: a Reader under any sequence of calls *)

MaxStreamLen == 4
MaxOps == 3
MaxRead == 3

CursorBytes == {0, 129, 255}

SeqsUpTo(S, n) == UNION {[1..k -> S] : k \in 0..n}

NoCall == [op |-> "none", arg |-> 0, exc |-> None, before |-> NoReader,
           data |-> <<>>, val |-> PyZero, neg |-> FALSE]

Call(op, arg, res, data, val, neg) ==
    /\ nops < MaxOps
    /\ reader' = res.r
    /\ last' = [op |-> op, arg |-> arg, exc |-> res.exc, before |-> reader,
                data |-> data, val |-> val, neg |-> neg]
    /\ nops' = nops + 1
    /\ UNCHANGED parserVars

CursorInit ==
    /\ \E s \in SeqsUpTo(CursorBytes, MaxStreamLen) : reader = NewReader(s)
    /\ last = NoCall
    /\ nops = 0
    /\ ParserIdle

CallReadByte ==
    \E res \in {read_byte(reader)} :
    Call("read_byte", 1, res, IF res.exc = None THEN <<res.val>> ELSE <<>>, PyZero, FALSE)

CallRead ==
    \E n \in 0..MaxRead :
        \E res \in {read(reader, n)} : Call("read", n, res, res.data, PyZero, FALSE)

CallReadRest ==
    \E res \in {read_rest(reader)} :
    Call("read_rest", reader.remaining, res, res.data, PyZero, FALSE)

CallReadInt32 ==
    \E res \in {read_int32(reader)} :
    Call("read_int32", 4, res, <<>>, res.val.mag, res.val.neg)

CallReadUint32 ==
    \E res \in {read_uint32(reader)} :
    Call("read_uint32", 4, res, <<>>, res.val, FALSE)

CallReadVint32 ==
    \E res \in {read_vint32(reader)} :
    Call("read_vint32", 0, res, <<>>, res.val, FALSE)

CallMore ==
    Call("more", 0, [r |-> reader, exc |-> None], <<>>, PyZero, more(reader))

CursorNext ==
    \/ CallReadByte
    \/ CallRead
    \/ CallReadRest
    \/ CallReadInt32
    \/ CallReadUint32
    \/ CallReadVint32
    \/ CallMore

SpecCursor == CursorInit /\ [][CursorNext]_vars

\* the calls that ask for a fixed number of bytes (last.arg)
SizedReads == {"read_byte", "read", "read_int32", "read_uint32"}

(* C1: a read_byte, read(n), read_int32 or read_uint32 that asks for more    *)
(* bytes than `remaining` fails with "Not enough data" and leaves the cursor *)
(* (remaining and stream position) as it was before the call.                *)
C1_FailedReadLeavesCursor ==
    (last.op \in SizedReads /\ last.arg > last.before.remaining)
        => (last.exc = NotEnoughData /\ reader = last.before)

(* C2: in every reachable state of a cursor the stream position and          *)
(* `remaining` both lie between 0 and the size, and agree.                   *)
C2_CursorWithinBounds ==
    /\ 0 <= reader.pos /\ reader.pos <= reader.size
    /\ 0 <= reader.remaining /\ reader.remaining <= reader.size
    /\ reader.remaining = reader.size - reader.pos

-----------------------------------------------------------------------------
(* SpecVarint: read_vint32 on byte strings, at offset 0 or after one byte *)

MaxVarintLen == 6

VarintBytes == {0, 1, 127, 128, 255}

\* v >> 7
PyShr7(v) == PyInt(v.hi \div 128, (v.lo \div 128) + (v.hi % 128) * 2^21)

\* the base-128 little-endian encoding that read_vint32 decodes
RECURSIVE EncodeVarint(_)
EncodeVarint(v) ==
    IF PyShr7(v) = PyZero THEN <<v.lo % 128>>
    ELSE <<(v.lo % 128) + 128>> \o EncodeVarint(PyShr7(v))

RoundTripValues ==
    {ToPy(0), ToPy(1), ToPy(127), ToPy(128), ToPy(16383), ToPy(16384),
     ToPy(Base - 1), PyInt(1, 0), PyInt(63, Base - 1), PyInt(127, Base - 1)}

VarintStreams ==
    SeqsUpTo(VarintBytes, MaxVarintLen)
        \cup {EncodeVarint(v) \o t : v \in RoundTripValues, t \in {<<>>, <<128>>, <<7, 0>>}}

VarintInit ==
    /\ \E s \in VarintStreams : reader = NewReader(s)
    /\ last = NoCall
    /\ nops = 0
    /\ ParserIdle

\* a read_byte before the varint, so that it starts at offset 1
VarintSkip ==
    /\ nops = 0
    /\ CallReadByte

VarintDecode ==
    /\ last.op # "read_vint32"
    /\ CallReadVint32

VarintNext == VarintSkip \/ VarintDecode

SpecVarint == VarintInit /\ [][VarintNext]_vars

\* the bytes not yet read when the last call was made
Unread(r) == SubSeq(r.stream, r.pos + 1, r.size)

\* the index of the first byte of s with the high bit clear, 0 if none in the first 5
TermIndex(s) ==
    LET ks == {k \in 1..Min(5, Len(s)) : s[k] < 128 /\ \A j \in 1..(k - 1) : s[j] >= 128}
    IN  IF ks = {} THEN 0 ELSE CHOOSE k \in ks : TRUE

\* the sum over i < k of (low 7 bits of byte i) * 2^(7*i)
RECURSIVE GroupSum(_, _)
GroupSum(s, k) ==
    IF k = 0 THEN PyZero
    ELSE PyAdd(GroupSum(s, k - 1), PyShl(s[k] % 128, 7 * (k - 1)))

IsPrefix(p, s) == Len(p) <= Len(s) /\ SubSeq(s, 1, Len(p)) = p

(* C10: on 1 to 5 groups ending in a byte with the high bit clear,           *)
(* read_vint32 returns the sum of (low 7 bits of byte i) * 2^(7*i), unwrapped *)
(* and untruncated, and consumes exactly those bytes; so the encoding of any *)
(* v up to 2^35-1 (0, 1, 127, 128, 16383, 16384, 2^34-1 among them) decodes  *)
(* to v.                                                                     *)
C10_VarintDecodes ==
    last.op = "read_vint32" =>
        LET s == Unread(last.before)
            k == TermIndex(s)
        IN  /\ k >= 1 =>
                /\ last.exc = None
                /\ last.val = GroupSum(s, k)
                /\ reader.pos = last.before.pos + k
                /\ reader.remaining = last.before.remaining - k
            /\ \A v \in RoundTripValues :
                   IsPrefix(EncodeVarint(v), s) =>
                       /\ last.exc = None
                       /\ last.val = v
                       /\ reader.pos = last.before.pos + Len(EncodeVarint(v))

\* 2^34-1 decoded from its five groups, with bytes left over after them
C10_Witness ==
    /\ last.op = "read_vint32"
    /\ last.exc = None
    /\ last.val = PyInt(63, Base - 1)
    /\ last.before.pos = 0
    /\ reader.pos = 5
    /\ reader.remaining = 2

\* the n bytes after the position a call started from
NextUnread(n) == SubSeq(last.before.stream, last.before.pos + 1, last.before.pos + n)

(* C16: a read_byte, read(n), read() or 32-bit read that succeeds takes      *)
(* `remaining` down by exactly n (1, n, the `remaining` it found, 4) and     *)
(* returns the next n unread bytes of the buffer, in order.                  *)
C16_ReadTakesExactlyN ==
    (last.exc = None /\ last.op \in SizedReads \cup {"read_rest"}) =>
        /\ reader.remaining = last.before.remaining - last.arg
        /\ last.op \in {"read_byte", "read", "read_rest"} => last.data = NextUnread(last.arg)
        /\ last.op = "read_uint32" => last.val = unpack_L(NextUnread(4))
        /\ last.op = "read_int32" =>
               (last.val = unpack_l(NextUnread(4)).mag /\ last.neg = unpack_l(NextUnread(4)).neg)

\* the first five unread bytes all carry the continuation flag
FiveContinued(s) == Len(s) >= 5 /\ \A j \in 1..5 : s[j] >= 128

(* C11: when none of the first five groups ends the varint, read_vint32      *)
(* fails with "Corrupt VarInt32", not with "Not enough data" and not with a  *)
(* value, having read five bytes and no sixth; it fails so in no other case. *)
C11_CorruptAfterFiveGroups ==
    last.op = "read_vint32" =>
        /\ FiveContinued(Unread(last.before)) =>
               /\ last.exc = CorruptVarInt
               /\ reader.pos = last.before.pos + 5
               /\ reader.remaining = last.before.remaining - 5
        /\ last.exc = CorruptVarInt => FiveContinued(Unread(last.before))

\* six continuation-flagged bytes, the sixth left unread
C11_Witness ==
    /\ last.op = "read_vint32"
    /\ last.exc = CorruptVarInt
    /\ last.before.pos = 0
    /\ Len(reader.stream) = 6
    /\ \A j \in 1..6 : reader.stream[j] >= 128
    /\ reader.pos = 5
    /\ reader.remaining = 1

-----------------------------------------------------------------------------
(* The replay files the parser is run on *)

MaxFrames == 2
MaxCap == 1

Vint(n) == EncodeVarint(ToPy(n))

\* an inner record: kind, size, payload
InnerRecord(kind, payload) == Vint(kind) \o Vint(Len(payload)) \o payload

\* an outer frame: kind, tick, size, payload
OuterFrame(kind, tick, payload) ==
    Vint(kind) \o Vint(tick) \o Vint(Len(payload)) \o payload

RECURSIVE Concat(_)
Concat(ss) == IF ss = <<>> THEN <<>> ELSE Head(ss) \o Concat(Tail(ss))

Header == Filestamp \o <<0, 0, 0, 12>>

\* game events of id 7: one key (string, 5); two keys (string, 5), (short, 2)
RecEvent7 == InnerRecord(25, <<7, 1 + 8 * 5>>)
RecEvent7Two == InnerRecord(25, <<7, 1 + 8 * 5, 4 + 8 * 2>>)
\* a game event of id 7 whose one key is tagged short (value 3)
RecEvent7Short == InnerRecord(25, <<7, 4 + 8 * 3>>)
\* event lists: id 7 named 1 with one string field; id 7 named 2 with a string
\* and a short field; id 8 named 3 without fields
RecList7 == InnerRecord(30, <<7, 1, 1>>)
RecList7Two == InnerRecord(30, <<7, 2, 1 + 8 * 4>>)
RecList8 == InnerRecord(30, <<8, 3, 0>>)
\* user messages: a known msg_type with blob <<9>>, an unknown msg_type
RecUser == InnerRecord(23, <<3, 9>>)
RecUserUnknown == InnerRecord(23, <<99, 9>>)
RecTick == InnerRecord(4, <<1>>)
RecUnknown == InnerRecord(99, <<1>>)

FrameOther == OuterFrame(1, 0, <<5>>)
FrameEvent == OuterFrame(7, 1, RecEvent7)
FrameListEvent == OuterFrame(7, 2, RecList7 \o RecEvent7)
FrameList8Event == OuterFrame(7, 3, RecList8 \o RecEvent7 \o RecTick)
FrameMismatch == OuterFrame(7, 4, RecEvent7Two \o RecUser)
FrameCompressed == OuterFrame(7 + DEM_IsCompressed, 300, compress(RecUser))
FrameFull == OuterFrame(13, 5, <<2>> \o RecList7Two \o RecEvent7Two)
FrameUnknownInner == OuterFrame(7, 6, RecUser \o RecUnknown)
FrameUnknown == OuterFrame(2, 0, <<1>>)
FrameUserUnknown == OuterFrame(7, 7, RecUserUnknown)
FrameUser == OuterFrame(7, 8, RecUser)
\* id 7 declared with one string field, then an event of id 7 with a key tagged short
FrameTypeClash == OuterFrame(7, 9, RecList7 \o RecEvent7Short)

\* the frames every byte of which the parser accepts
GoodFrames ==
    {FrameOther, FrameEvent, FrameListEvent, FrameList8Event, FrameCompressed,
     FrameFull, FrameUser, FrameTypeClash}

Catalogue ==
    GoodFrames \cup {FrameMismatch, FrameUnknownInner, FrameUnknown, FrameUserUnknown}

FileOf(fs) == Header \o Concat(fs)

\* a file with a wrong first byte
BadStamp(f) == IF f = <<>> THEN f ELSE <<81>> \o Tail(f)

TruncatedBase == FileOf(<<FrameListEvent, FrameCompressed>>)

TruncatedFiles ==
    {SubSeq(g, 1, n) : g \in {TruncatedBase, BadStamp(TruncatedBase)},
                       n \in 0..Len(TruncatedBase)}

InputFiles ==
    {FileOf(fs) : fs \in SeqsUpTo(Catalogue, MaxFrames)}
        \cup {BadStamp(FileOf(fs)) : fs \in SeqsUpTo({FrameUser}, MaxFrames)}
        \cup TruncatedFiles

\* the external hook tables the parser is constructed with
HookTables ==
    {{}, {"CDemoPacket", "CDemoFileHeader", "CSVCMsg_UserMessage", "CSVCMsg_GameEvent",
          "CSVCMsg_GameEventList", "CUserMsg_SayText"}}

\* the external hooks that raise: none, or the hook of one kind
HookFailures == {{}, {"CSVCMsg_GameEvent"}, {"CDemoPacket"}, {"CDemoFileHeader"}}

-----------------------------------------------------------------------------
(* DemoParser.parse *)

cursorVars == <<last, nops>>

Init ==
    /\ \E f \in InputFiles : reader = NewReader(f)
    /\ frames \in 0..MaxCap
    /\ hooks \in HookTables
    /\ hookfails \in {fs \in HookFailures : fs \subseteq hooks}
    /\ framestart = NoFrame
    /\ last = NoCall
    /\ nops = 0
    /\ pc = "start"
    /\ exc = None
    /\ frame = 0
    /\ message = NoMessage
    /\ compressed = FALSE
    /\ cmdkey = 0
    /\ rawcmd = 0
    /\ rawpayload = <<>>
    /\ inner = NoReader
    /\ eventlist = NoMessage
    /\ event_lookup = <<>>
    /\ calls = <<>>
    /\ events = <<>>
    /\ usermsgs = <<>>
    /\ skipped = <<>>

Raise(e) == pc' = "raised" /\ exc' = e

Call2(tier, m) == [tier |-> tier, type |-> m.type, arg |-> m]

\* a faulty variant of filestamp_ok, kept for comparison: the filestamp is not compared
filestamp_any(filestamp) == TRUE

\* filestamp != "PBUFDEM\x00"
filestamp_ok(filestamp) == filestamp = Filestamp

\* parse, lines 219-230: the filestamp, the offset, the check
ParseHeader ==
    /\ pc = "start"
    /\ \E fs \in {read(reader, 8)} :
           IF fs.exc # None THEN reader' = fs.r /\ Raise(fs.exc)
           ELSE \E off \in {read_int32(fs.r)} :
                IF off.exc # None THEN reader' = off.r /\ Raise(off.exc)
                ELSE IF ~filestamp_ok(fs.data) THEN reader' = off.r /\ Raise(InvalidReplay)
                ELSE reader' = off.r /\ pc' = "loop" /\ exc' = exc
    /\ UNCHANGED <<frames, hooks, hookfails, frame, message, compressed, cmdkey, rawcmd,
                   rawpayload, inner, eventlist, event_lookup, calls, events, usermsgs,
                   skipped, framestart>>
    /\ UNCHANGED cursorVars

\* cmd & demo_pb2.DEM_IsCompressed
is_compressed(cmd) == BitAnd(cmd.lo, DEM_IsCompressed) # 0

\* a faulty variant of mask_cmd, kept for comparison: the flag is left in the kind
mask_cmd_kept(cmd) == cmd

\* cmd & ~demo_pb2.DEM_IsCompressed
mask_cmd(cmd) == PyInt(cmd.hi, cmd.lo - BitAnd(cmd.lo, DEM_IsCompressed))

\* parse, lines 234-250: one frame read from the stream
ParseFrame ==
    /\ pc = "loop"
    /\ reader.remaining > 0
    /\ \E c \in {read_vint32(reader)} :
         IF c.exc # None
         THEN /\ reader' = c.r /\ Raise(c.exc)
              /\ UNCHANGED <<message, compressed, cmdkey, rawcmd, rawpayload>>
         ELSE
           \E t \in {read_vint32(c.r)} :
           \E flag \in {is_compressed(c.val)} :
           \E key \in {IF flag THEN mask_cmd(c.val) ELSE c.val} :
             IF t.exc # None
             THEN /\ reader' = t.r /\ Raise(t.exc)
                  /\ UNCHANGED <<message, compressed, cmdkey, rawcmd, rawpayload>>
             ELSE IF ~InTable(key, MESSAGE_TYPES)
             THEN /\ reader' = t.r /\ Raise(UnknownMessageType)
                  /\ compressed' = flag
                  /\ cmdkey' = ToInt(key)
                  /\ rawcmd' = ToInt(c.val)
                  /\ UNCHANGED <<message, rawpayload>>
             ELSE \E m \in {read_message(t.r, MESSAGE_TYPES[key.lo], flag, TRUE)} :
                  /\ reader' = m.r
                  /\ compressed' = flag
                  /\ cmdkey' = ToInt(key)
                  /\ rawcmd' = ToInt(c.val)
                  /\ rawpayload' = m.raw
                  /\ IF m.exc # None
                     THEN Raise(m.exc) /\ UNCHANGED message
                     ELSE message' = m.msg /\ pc' = "hooks" /\ exc' = exc
    /\ framestart' = [started |-> TRUE, ncalls |-> Len(calls), eventlist |-> eventlist,
                       event_lookup |-> event_lookup]
    /\ UNCHANGED <<frames, hooks, hookfails, frame, inner, eventlist, event_lookup, calls,
                   events, usermsgs, skipped>>
    /\ UNCHANGED cursorVars

\* parse, line 234: the loop ends with the stream
ParseStop ==
    /\ pc = "loop"
    /\ ~(reader.remaining > 0)
    /\ pc' = "done"
    /\ UNCHANGED <<reader, exc, frames, hooks, hookfails, frame, message, compressed,
                   cmdkey, rawcmd, rawpayload, inner, eventlist, event_lookup, calls, events,
                   usermsgs, skipped, framestart>>
    /\ UNCHANGED cursorVars

\* the calls run_hooks makes of the external hook of m, if there is one
external_calls(m) == IF m.type \in hooks THEN <<Call2("external", m)>> ELSE <<>>

HookError == "Exception: raised by a hook"

\* a faulty variant of hook_outcome, kept for comparison: what a hook raises is dropped
hook_outcome_swallowed(m) == None

\* run_hooks, line 147: what the external hook of m raises, there being no handler
hook_outcome(m) == IF m.type \in hooks /\ m.type \in hookfails THEN HookError ELSE None

\* run_hooks on the outer message: parse_demo_packet starts on a packet (lines
\* 150-158); a message without internal hook goes to its external hook
RunHooks ==
    /\ pc = "hooks"
    /\ IF message.type \in {"CDemoPacket", "CDemoFullPacket"}
       THEN /\ inner' = NewReader(IF message.type = "CDemoFullPacket"
                                  THEN message.packet.data ELSE message.data)
            /\ calls' = calls \o <<Call2("internal", message)>>
            /\ pc' = "packet"
            /\ exc' = exc
       ELSE /\ inner' = inner
            /\ calls' = calls \o external_calls(message)
            /\ IF hook_outcome(message) # None THEN Raise(hook_outcome(message))
               ELSE pc' = "next" /\ exc' = exc
    /\ UNCHANGED <<reader, frames, hooks, hookfails, frame, message, compressed, cmdkey,
                   rawcmd, rawpayload, eventlist, event_lookup, events, usermsgs, skipped,
                   framestart>>
    /\ UNCHANGED cursorVars

\* a faulty variant of internal_hook, kept for comparison: a game event of an
\* unknown id registers an empty descriptor for it
internal_hook_event_registers(m) ==
    CASE m.type = "CSVCMsg_UserMessage" ->
            Bind(parse_user_message(m), LAMBDA res :
            [exc |-> res.exc, eventlist |-> eventlist, event_lookup |-> event_lookup,
             events |-> events, usermsgs |-> usermsgs \o res.out, skipped |-> skipped])
      [] m.type = "CSVCMsg_GameEventList" ->
            [exc |-> None, eventlist |-> m,
             event_lookup |-> parse_game_event_list(event_lookup, m),
             events |-> events, usermsgs |-> usermsgs, skipped |-> skipped]
      [] m.type = "CSVCMsg_GameEvent" ->
            Bind(parse_game_event(event_lookup, m), LAMBDA res :
            [exc |-> res.exc, eventlist |-> eventlist,
             event_lookup |-> event_lookup
                 @@ (m.eventid :> [eventid |-> m.eventid, name |-> 0, keys |-> <<>>]),
             events |-> events \o res.out, usermsgs |-> usermsgs,
             skipped |-> IF res.known THEN skipped ELSE Append(skipped, m.eventid)])
      [] OTHER ->
            [exc |-> None, eventlist |-> eventlist, event_lookup |-> event_lookup,
             events |-> events, usermsgs |-> usermsgs, skipped |-> skipped]

\* the internal hook of an inner message: what it raises and what it leaves
internal_hook(m) ==
    CASE m.type = "CSVCMsg_UserMessage" ->
            Bind(parse_user_message(m), LAMBDA res :
            [exc |-> res.exc, eventlist |-> eventlist, event_lookup |-> event_lookup,
             events |-> events, usermsgs |-> usermsgs \o res.out, skipped |-> skipped])
      [] m.type = "CSVCMsg_GameEventList" ->
            [exc |-> None, eventlist |-> m,
             event_lookup |-> parse_game_event_list(event_lookup, m),
             events |-> events, usermsgs |-> usermsgs, skipped |-> skipped]
      [] m.type = "CSVCMsg_GameEvent" ->
            Bind(parse_game_event(event_lookup, m), LAMBDA res :
            [exc |-> res.exc, eventlist |-> eventlist, event_lookup |-> event_lookup,
             events |-> events \o res.out, usermsgs |-> usermsgs,
             skipped |-> IF res.known THEN skipped ELSE Append(skipped, m.eventid)])
      [] OTHER ->
            [exc |-> None, eventlist |-> eventlist, event_lookup |-> event_lookup,
             events |-> events, usermsgs |-> usermsgs, skipped |-> skipped]

\* a faulty variant of run_hooks_calls, kept for comparison: the external hook first
run_hooks_calls_external_first(m, internal_exc) ==
    (IF internal_exc = None THEN external_calls(m) ELSE <<>>)
        \o (IF m.type \in internal_hooks THEN <<Call2("internal", m)>> ELSE <<>>)

\* run_hooks, lines 143-147: the internal hook of m if it has one, then, unless
\* that raised, the external hook if it has one
run_hooks_calls(m, internal_exc) ==
    (IF m.type \in internal_hooks THEN <<Call2("internal", m)>> ELSE <<>>)
        \o (IF internal_exc = None THEN external_calls(m) ELSE <<>>)

\* parse_demo_packet, lines 160-172: one record of the packet, with its hooks
PacketRecord ==
    /\ pc = "packet"
    /\ more(inner)
    /\ \E c \in {read_vint32(inner)} :
         IF c.exc # None
         THEN /\ inner' = c.r /\ Raise(c.exc)
              /\ UNCHANGED <<eventlist, event_lookup, calls, events, usermsgs, skipped>>
         ELSE IF ~InTable(c.val, DEMO_PACKET_MESSAGE_TYPES)
         THEN /\ inner' = c.r /\ Raise(UnknownDemoPacketCmd)
              /\ UNCHANGED <<eventlist, event_lookup, calls, events, usermsgs, skipped>>
         ELSE
           \E m \in {read_message(c.r, DEMO_PACKET_MESSAGE_TYPES[c.val.lo], FALSE, TRUE)} :
             IF m.exc # None
             THEN /\ inner' = m.r /\ Raise(m.exc)
                  /\ UNCHANGED <<eventlist, event_lookup, calls, events, usermsgs, skipped>>
             ELSE \E h \in {internal_hook(m.msg)} :
                  /\ inner' = m.r
                  /\ eventlist' = h.eventlist
                  /\ event_lookup' = h.event_lookup
                  /\ events' = h.events
                  /\ usermsgs' = h.usermsgs
                  /\ skipped' = h.skipped
                  /\ calls' = calls \o run_hooks_calls(m.msg, h.exc)
                  /\ IF h.exc # None THEN Raise(h.exc)
                     ELSE IF hook_outcome(m.msg) # None THEN Raise(hook_outcome(m.msg))
                     ELSE pc' = "packet" /\ exc' = exc
    /\ UNCHANGED <<reader, frames, hooks, hookfails, frame, message, compressed, cmdkey,
                   rawcmd, rawpayload, framestart>>
    /\ UNCHANGED cursorVars

\* parse_demo_packet returns (line 160); run_hooks goes on to the packet's
\* external hook (lines 146-147)
PacketEnd ==
    /\ pc = "packet"
    /\ ~more(inner)
    /\ calls' = calls \o external_calls(message)
    /\ IF hook_outcome(message) # None THEN Raise(hook_outcome(message))
       ELSE pc' = "next" /\ exc' = exc
    /\ UNCHANGED <<reader, frames, hooks, hookfails, frame, message, compressed, cmdkey,
                   rawcmd, rawpayload, inner, eventlist, event_lookup, events, usermsgs,
                   skipped, framestart>>
    /\ UNCHANGED cursorVars

\* self.frames and frame > self.frames
cap_reached(n) == frames # 0 /\ n > frames

\* parse, lines 254-259: the frame is counted, the cap is checked
FrameEnd ==
    /\ pc = "next"
    /\ frame' = frame + 1
    /\ pc' = IF cap_reached(frame + 1) THEN "done" ELSE "loop"
    /\ UNCHANGED <<reader, exc, frames, hooks, hookfails, message, compressed, cmdkey,
                   rawcmd, rawpayload, inner, eventlist, event_lookup, calls, events,
                   usermsgs, skipped, framestart>>
    /\ UNCHANGED cursorVars

Next ==
    \/ ParseHeader
    \/ ParseFrame
    \/ ParseStop
    \/ RunHooks
    \/ PacketRecord
    \/ PacketEnd
    \/ FrameEnd

Spec == Init /\ [][Next]_vars

\* parse is one sequential call: while a step is possible, one is taken
SpecTerm == Init /\ [][Next]_vars /\ WF_vars(Next)


-----------------------------------------------------------------------------
(* What the claims are stated over *)

LastCall == calls[Len(calls)]

IsEventCall(i) == calls[i].tier = "internal" /\ calls[i].type = "CSVCMsg_GameEvent"

IsListCall(i) == calls[i].tier = "internal" /\ calls[i].type = "CSVCMsg_GameEventList"

Defines(m, id) == \E k \in DOMAIN m.descriptors : m.descriptors[k].eventid = id

\* the event lists dispatched before call i that define the event id of call i
DefiningLists(i) ==
    {j \in 1..(i - 1) : IsListCall(j) /\ Defines(calls[j].arg, calls[i].arg.eventid)}

Max(S) == CHOOSE x \in S : \A y \in S : y <= x

\* the descriptor of the event of call i in the latest list that defines it
NewestDescriptor(i) ==
    LET ds == calls[Max(DefiningLists(i))].arg.descriptors
        k == Max({n \in DOMAIN ds : ds[n].eventid = calls[i].arg.eventid})
    IN  ds[k]

\* the event of call i carries no more keys than the descriptor has fields, each
\* of a type KEY_DATA_TYPES knows
Conforms(i, d) ==
    /\ Len(calls[i].arg.keys) <= Len(d.keys)
    /\ \A k \in DOMAIN calls[i].arg.keys : calls[i].arg.keys[k].type \in DOMAIN KEY_DATA_TYPES

\* the members of a finite set of numbers, ascending
RECURSIVE Ascending(_)
Ascending(S) ==
    IF S = {} THEN <<>>
    ELSE Ascending(S \ {Max(S)}) \o <<Max(S)>>

UnknownEvent(i) == IsEventCall(i) /\ DefiningLists(i) = {}

DecodableEvent(i) ==
    IsEventCall(i) /\ DefiningLists(i) # {} /\ Conforms(i, NewestDescriptor(i))

EventIdOf(i) == calls[i].arg.eventid

NewestNameOf(i) == NewestDescriptor(i).name

SchemaErrors == {KeysIndexError, KeyTypeError}

UnknownEvents == Ascending({i \in DOMAIN calls : UnknownEvent(i)})

DecodableEvents == Ascending({i \in DOMAIN calls : DecodableEvent(i)})

(* C3: a game event whose id no event list has defined yet is skipped, that  *)
(* record only, without ending the run; once an event list has defined the   *)
(* id, every later event of that id (that fits the descriptor) is decoded    *)
(* with the descriptor installed last.                                      *)
C3_SchemaOrdering ==
    /\ skipped = [k \in DOMAIN UnknownEvents |-> EventIdOf(UnknownEvents[k])]
    /\ [k \in DOMAIN events |-> events[k]["name"]]
           = [k \in DOMAIN DecodableEvents |-> NewestNameOf(DecodableEvents[k])]
    /\ (calls # <<>> /\ UnknownEvent(Len(calls))) => exc \notin SchemaErrors

\* an event of id 7 skipped, id 7 defined, an event of id 7 decoded, the run complete
C3_Witness ==
    /\ pc = "done"
    /\ exc = None
    /\ skipped = <<7>>
    /\ Len(events) = 1
    /\ events[1]["name"] = 1
    /\ events[1]["k1"] = 5
    /\ frame = 2

\* the files of frames the parser accepts, n frames or more
HoldsFrames(stream, n) ==
    \E fs \in SeqsUpTo(GoodFrames, MaxFrames) : Len(fs) >= n /\ stream = FileOf(fs)

(* C4: with a frame cap N and a well-formed stream of at least N frames,     *)
(* exactly N frames are decoded and dispatched, and the run ends cleanly.    *)
C4_CapYieldsExactly ==
    (pc = "done" /\ frames > 0 /\ HoldsFrames(reader.stream, frames))
        => (exc = None /\ frame = frames)

(* C5: after an event list is processed the registry holds exactly the       *)
(* descriptors of that message, keyed by event id.                           *)
C5_EventListReplacesRegistry ==
    (pc = "packet" /\ calls # <<>> /\ LastCall.type = "CSVCMsg_GameEventList")
        => LET ds == LastCall.arg.descriptors IN
           /\ DOMAIN event_lookup = {ds[k].eventid : k \in DOMAIN ds}
           /\ \A id \in DOMAIN event_lookup :
                  \E k \in DOMAIN ds : ds[k] = event_lookup[id]

(* C6: a game event with more keys than its descriptor has fields does not   *)
(* end the run: the event is skipped and decoding goes on.                   *)
C6_KeyMismatchIsSkipped ==
    (/\ calls # <<>>
     /\ IsEventCall(Len(calls))
     /\ LastCall.arg.eventid \in DOMAIN event_lookup
     /\ Len(LastCall.arg.keys) > Len(event_lookup[LastCall.arg.eventid].keys))
        => (pc # "raised" /\ exc = None)

(* C7: for a replay of one packet frame with one user message, one frame is  *)
(* produced and the decoded user message reaches a hook exactly once.        *)
C7_UserMessageReachesHook ==
    (/\ pc = "done"
     /\ reader.stream = FileOf(<<FrameUser>>)
     /\ "CUserMsg_SayText" \in hooks
     /\ "CSVCMsg_UserMessage" \in hooks)
        => /\ frame = 1
           /\ Len(usermsgs) = 1
           /\ Cardinality({i \in DOMAIN calls :
                              calls[i].type = usermsgs[1].type
                                  /\ calls[i].arg = usermsgs[1]}) = 1

\* the first 8 bytes are not the filestamp
StampDiffers(stream) == Len(stream) >= 8 /\ SubSeq(stream, 1, 8) # Filestamp

NothingDecoded ==
    /\ frame = 0
    /\ calls = <<>>
    /\ message = NoMessage
    /\ events = <<>>
    /\ usermsgs = <<>>

(* C8, as claimed: whatever its length, a buffer whose first 8 bytes are not *)
(* the filestamp fails with "Invalid replay" before any frame or hook.       *)
C8_BadStampFails ==
    (pc # "start" /\ StampDiffers(reader.stream))
        => (pc = "raised" /\ exc = InvalidReplay /\ NothingDecoded)

(* C8, amended: a buffer of 12 bytes or more whose first 8 bytes are not the *)
(* filestamp fails with "Invalid replay", a shorter one with "Not enough     *)
(* data"; either way before any frame is decoded or any hook is invoked.     *)
C8_BadStampFailsFrom12 ==
    (pc # "start" /\ StampDiffers(reader.stream))
        => /\ pc = "raised"
           /\ exc = IF reader.size >= 12 THEN InvalidReplay ELSE NotEnoughData
           /\ NothingDecoded

\* a wrong filestamp in front of a frame
C8_Witness ==
    /\ pc = "raised"
    /\ exc = InvalidReplay
    /\ reader.stream = BadStamp(FileOf(<<FrameUser>>))

\* the frame variables are those of a frame that was read
FrameRead == pc \in {"hooks", "packet", "next"}

(* C9: a frame is decoded as compressed iff the compression bit is set in    *)
(* the kind read; the bit is masked off before the kind is looked up, and    *)
(* the key looked up never has it.                                           *)
C9_CompressionFlagMasked ==
    /\ (FrameRead \/ exc \in {UnknownMessageType, SnappyError}) =>
           /\ compressed = (BitAnd(rawcmd, DEM_IsCompressed) # 0)
           /\ cmdkey = rawcmd - BitAnd(rawcmd, DEM_IsCompressed)
           /\ BitAnd(cmdkey, DEM_IsCompressed) = 0
    /\ exc = UnknownMessageType => cmdkey \notin DOMAIN MESSAGE_TYPES
    /\ exc = SnappyError => compressed
    /\ FrameRead =>
           /\ cmdkey \in DOMAIN MESSAGE_TYPES
           /\ message = ParseFromString(MESSAGE_TYPES[cmdkey],
                            IF BitAnd(rawcmd, DEM_IsCompressed) # 0
                            THEN decompress(rawpayload).data ELSE rawpayload)

\* a compressed packet frame at dispatch
C9_Witness ==
    /\ pc = "hooks"
    /\ rawcmd = 7 + DEM_IsCompressed
    /\ cmdkey = 7
    /\ compressed
    /\ message.type = "CDemoPacket"
    /\ message.data = RecUser

-----------------------------------------------------------------------------
(* The next unread bytes of a cursor, read directly off the buffer (kinds,   *)
(* ticks and sizes below 128 take one byte each)                             *)

ByteAt(r, k) == r.stream[r.pos + k]

\* the parser is about to read a frame whose kind, the flag apart, is in no table
OuterKindUnknown ==
    /\ pc = "loop"
    /\ reader.remaining >= 2
    /\ ByteAt(reader, 1) < 128
    /\ ByteAt(reader, 2) < 128
    /\ (ByteAt(reader, 1) % DEM_IsCompressed) \notin DOMAIN MESSAGE_TYPES

\* the parser is about to read an inner record whose kind is in no table
InnerKindUnknown ==
    /\ pc = "packet"
    /\ inner.remaining >= 1
    /\ ByteAt(inner, 1) < 128
    /\ ByteAt(inner, 1) \notin DOMAIN DEMO_PACKET_MESSAGE_TYPES

\* the parser is about to read a whole user message record of unknown msg_type
UserKindUnknown ==
    /\ pc = "packet"
    /\ inner.remaining >= 3
    /\ ByteAt(inner, 1) = 23
    /\ ByteAt(inner, 2) \in 1..127
    /\ inner.remaining >= 2 + ByteAt(inner, 2)
    /\ ByteAt(inner, 3) \notin DOMAIN COMBINED_USER_MESSAGE_TYPES

(* C12: an outer kind (the flag masked off), an inner kind or a user message *)
(* msg_type that is in no table ends the run with the error of its level:    *)
(* no hook is given the message, no frame is counted, and once the run has   *)
(* failed nothing more is decoded or dispatched.                             *)
C12_UnknownKindIsFatal ==
    [][/\ OuterKindUnknown =>
            /\ pc' = "raised" /\ exc' = UnknownMessageType
            /\ calls' = calls /\ frame' = frame
       /\ InnerKindUnknown =>
            /\ pc' = "raised" /\ exc' = UnknownDemoPacketCmd
            /\ calls' = calls /\ frame' = frame
       /\ UserKindUnknown =>
            /\ pc' = "raised" /\ exc' = UnknownUserMessageCmd
            /\ calls' = Append(calls, [tier |-> "internal", type |-> "CSVCMsg_UserMessage",
                                       arg |-> calls'[Len(calls')].arg])
            /\ usermsgs' = usermsgs /\ frame' = frame
       /\ pc = "raised" => FALSE]_vars

\* an unknown inner kind after a dispatched record, with a frame still unread
C12_Witness ==
    /\ pc = "raised"
    /\ exc = UnknownDemoPacketCmd
    /\ inner.pos > 1
    /\ inner.stream[inner.pos] = 99
    /\ inner.remaining > 0
    /\ reader.remaining > 0
    /\ frame = 0

-----------------------------------------------------------------------------
\* the hook calls made by the step
Appended == SubSeq(calls', Len(calls) + 1, Len(calls'))

\* the tiers with a callback for a kind, in the order claimed
TiersFor(type) ==
    (IF type \in internal_hooks THEN <<"internal">> ELSE <<>>)
        \o (IF type \in hooks THEN <<"external">> ELSE <<>>)

IsPacket(m) == m.type \in {"CDemoPacket", "CDemoFullPacket"}

\* the step dispatches a message whose hooks, if it has an internal one, return
Dispatched == exc' \in {None, HookError}

(* C13: dispatching a message calls its internal hook, then its external     *)
(* hook, each once if it is registered and with that message; a message of a *)
(* kind without any hook is passed over without error.  (A packet's internal *)
(* hook is parse_demo_packet: it is entered when the frame is dispatched and *)
(* the packet's external hook is called when it has returned.)               *)
C13_InternalThenExternal ==
    [][/\ (pc = "hooks" /\ ~IsPacket(message)) =>
            /\ [k \in DOMAIN Appended |-> Appended[k].tier] = TiersFor(message.type)
            /\ \A k \in DOMAIN Appended : Appended[k].arg = message
            /\ TiersFor(message.type) = <<>> => (pc' = "next" /\ exc' = None)
       /\ (pc = "hooks" /\ IsPacket(message)) =>
            Appended = <<[tier |-> "internal", type |-> message.type, arg |-> message]>>
       /\ (pc = "packet" /\ inner.remaining <= 0) =>
            /\ calls[framestart.ncalls + 1]
                   = [tier |-> "internal", type |-> message.type, arg |-> message]
            /\ Appended = IF message.type \in hooks
                          THEN <<[tier |-> "external", type |-> message.type,
                                  arg |-> message]>>
                          ELSE <<>>
       /\ (pc = "packet" /\ inner.remaining > 0 /\ inner' # inner /\ Dispatched
              /\ ByteAt(inner, 1) \in DOMAIN DEMO_PACKET_MESSAGE_TYPES) =>
            LET type == DEMO_PACKET_MESSAGE_TYPES[ByteAt(inner, 1)] IN
            /\ [k \in DOMAIN Appended |-> Appended[k].tier] = TiersFor(type)
            /\ \A k \in DOMAIN Appended :
                   Appended[k].type = type /\ Appended[k].arg = Appended[1].arg
            /\ TiersFor(type) = <<>> => (pc' = "packet" /\ exc' = None)]_vars

\* a packet of an event list, a game event and a tick, every hook registered
\* but that of the tick, at the end of the run
C13_Witness ==
    /\ pc = "done"
    /\ reader.stream = FileOf(<<FrameList8Event>>)
    /\ hooks # {}
    /\ [k \in DOMAIN calls |-> <<calls[k].tier, calls[k].type>>]
           = << <<"internal", "CDemoPacket">>,
                <<"internal", "CSVCMsg_GameEventList">>,
                <<"external", "CSVCMsg_GameEventList">>,
                <<"internal", "CSVCMsg_GameEvent">>,
                <<"external", "CSVCMsg_GameEvent">>,
                <<"external", "CDemoPacket">> >>

-----------------------------------------------------------------------------
(* C14: the value stored for key n of a decoded event is the one read with   *)
(* the accessor of the type that field n of the descriptor declares, under   *)
(* that field's name.                                                        *)
C14_AccessorByDeclaredType ==
    Len(events) = Len(DecodableEvents) =>
        \A k \in DOMAIN events :
            LET d == NewestDescriptor(DecodableEvents[k])
                e == calls[DecodableEvents[k]].arg
            IN  \A n \in DOMAIN e.keys :
                    events[k][d.keys[n].name]
                        = getattr(e.keys[n], KEY_DATA_TYPES[d.keys[n].type])

-----------------------------------------------------------------------------
(* C15: when the processing of a frame, its inner records included, ends in  *)
(* an error, no hook has been called for the frame or its records and the    *)
(* registry is as it was when the frame began.                               *)
(* (Taken at its weakest: the error is a decoding error, not one a hook      *)
(* raised, and the hooks counted are the external ones.)                     *)
C15_FrameFailsAtomically ==
    (pc = "raised" /\ framestart.started /\ exc # HookError)
        => /\ \A i \in (framestart.ncalls + 1)..Len(calls) : calls[i].tier # "external"
           /\ event_lookup = framestart.event_lookup
           /\ eventlist = framestart.eventlist

-----------------------------------------------------------------------------
\* what the internal hooks of the inner messages raise
InternalHookErrors == {UnknownUserMessageCmd, KeysIndexError, KeyTypeError}

(* C17: an exception raised by a hook, external or internal, ends the run    *)
(* with that exception: the failing call is the last hook call made, an      *)
(* internal failure keeps the external hook of the same message from being   *)
(* called, and nothing is decoded or dispatched after it.                    *)
C17_HookFailurePropagates ==
    [][/\ \A k \in DOMAIN Appended :
              (Appended[k].tier = "external" /\ Appended[k].type \in hookfails) =>
                  /\ k = Len(Appended)
                  /\ pc' = "raised"
                  /\ exc' = HookError
       /\ exc' \in InternalHookErrors =>
              /\ pc' = "raised"
              /\ Appended # <<>>
              /\ Appended[Len(Appended)].tier = "internal"
       /\ exc \in InternalHookErrors \cup {HookError} => FALSE]_vars

\* the hook of a game event has raised, with records of the packet still unread
C17_Witness ==
    /\ pc = "raised"
    /\ exc = HookError
    /\ calls # <<>>
    /\ LastCall.tier = "external"
    /\ LastCall.type = "CSVCMsg_GameEvent"
    /\ inner.remaining > 0
    /\ frame = 0

-----------------------------------------------------------------------------
Terminated == pc \in {"done", "raised"}

\* a file of frames the parser accepts, no frame cap, no hook that raises
WellFormedUncapped == HoldsFrames(reader.stream, 0) /\ frames = 0 /\ hookfails = {}

(* C18: every run of parse ends, at the end of the buffer, at the frame cap  *)
(* or with an error; on a well-formed stream without a cap it ends without   *)
(* error, and exactly when nothing of the buffer is left unread.             *)
C18_DecodeTerminates ==
    /\ <>Terminated
    /\ WellFormedUncapped => <>(pc = "done")
    /\ [](WellFormedUncapped =>
              /\ pc # "raised"
              /\ pc = "done" => (reader.remaining = 0 /\ exc = None)
              /\ (pc = "loop" /\ reader.remaining = 0) => ENABLED ParseStop)
    /\ [](pc = "done" =>
              (reader.remaining <= 0 \/ (frames > 0 /\ frame >= frames)))

\* the end of a well-formed stream of two frames, the second a packet: no cap
C18_Witness ==
    /\ pc = "done"
    /\ exc = None
    /\ frames = 0
    /\ frame = 2
    /\ reader.remaining = 0
    /\ reader.stream = FileOf(<<FrameOther, FrameList8Event>>)

-----------------------------------------------------------------------------
\* the data parse_demo_packet reads its records from
PacketData(m) == IF m.type = "CDemoFullPacket" THEN m.packet.data ELSE m.data

\* the size and the payload of the record the inner cursor is at
RecordSize == ByteAt(inner, 2)
RecordPayload == SubSeq(inner.stream, inner.pos + 3, inner.pos + 2 + RecordSize)

(* C19: the records of a packet are decoded and dispatched one after the     *)
(* other, in the order of the packet's data, and all of them before the next *)
(* frame is read; a frame is dispatched only once its whole payload has been *)
(* read from the outer cursor, which the decoding of the records leaves as   *)
(* it is.                                                                    *)
C19_DepthFirstInStreamOrder ==
    /\ [](pc \in {"loop", "next", "done"} => inner.remaining <= 0)
    /\ [](pc \in {"hooks", "packet", "next"} =>
              /\ reader.pos >= Len(rawpayload)
              /\ SubSeq(reader.stream, reader.pos - Len(rawpayload) + 1, reader.pos)
                     = rawpayload
              /\ reader.remaining = reader.size - reader.pos)
    /\ [][/\ pc \in {"hooks", "packet", "next"} => reader' = reader
          /\ (pc = "hooks" /\ IsPacket(message)) =>
                 /\ pc' = "packet"
                 /\ inner' = NewReader(PacketData(message))
          /\ (pc = "packet" /\ inner.remaining > 0 /\ pc' = "packet") =>
                 /\ inner'.stream = inner.stream
                 /\ inner'.pos = inner.pos + 2 + RecordSize
                 /\ inner'.remaining = inner.remaining - (2 + RecordSize)
                 /\ \A k \in DOMAIN Appended :
                        Appended[k].arg
                            = ParseFromString(DEMO_PACKET_MESSAGE_TYPES[ByteAt(inner, 1)],
                                              RecordPayload)
          /\ pc = "packet" => pc' \in {"packet", "raised", "next"}
          /\ (pc = "packet" /\ pc' = "next") => inner.remaining <= 0]_vars

\* between two records of a packet, the second dispatched after the first, with
\* a frame still unread behind the packet
C19_Witness ==
    /\ pc = "packet"
    /\ hooks # {}
    /\ reader.stream = FileOf(<<FrameList8Event, FrameOther>>)
    /\ reader.remaining = Len(FrameOther)
    /\ inner.pos = Len(RecList8 \o RecEvent7)
    /\ inner.remaining = Len(RecTick)
    /\ Len(calls) = 5
    /\ calls[2].type = "CSVCMsg_GameEventList"
    /\ calls[4].type = "CSVCMsg_GameEvent"

-----------------------------------------------------------------------------
\* the step processes an event list: its internal hook is the first call made
EventListStep ==
    /\ pc = "packet"
    /\ Appended # <<>>
    /\ Appended[1].tier = "internal"
    /\ Appended[1].type = "CSVCMsg_GameEventList"

(* C20: event_lookup and eventlist are written only when an event list is    *)
(* processed: a game event, of known or unknown id, a user message and every *)
(* other outer or inner message leave them as they are, and they are empty   *)
(* until the first event list.                                               *)
C20_RegistryWrittenByEventListOnly ==
    /\ []((\A i \in DOMAIN calls : ~IsListCall(i)) =>
              (event_lookup = <<>> /\ eventlist = NoMessage))
    /\ [][/\ ~EventListStep => (event_lookup' = event_lookup /\ eventlist' = eventlist)
          /\ EventListStep => eventlist' = Appended[1].arg
          /\ (pc = "packet" /\ inner.remaining > 0 /\ ByteAt(inner, 1) # 30) =>
                 (event_lookup' = event_lookup /\ eventlist' = eventlist)]_vars

\* after an event list: an event of a known id decoded and one of an unknown id
\* skipped, the registry still what the list made it
C20_Witness ==
    /\ pc = "done"
    /\ reader.stream = FileOf(<<FrameListEvent, FrameList8Event>>)
    /\ Len(events) = 2
    /\ DOMAIN event_lookup = {7, 8}
    /\ eventlist.type = "CSVCMsg_GameEventList"
    /\ eventlist.descriptors[1].eventid = 8

=============================================================================
